---- MODULE Spec2Model ----
(***************************************************************************)
(* Smart Advisor Tool: the two scoring-and-matching passes.                *)
(*                                                                         *)
(*   src/app.py       RIASEC variant: calculate_riasec_scores (Strategy A) *)
(*                    and match_programmes (Scheme A), run by              *)
(*                    show_results_page.                                   *)
(*   src/data/app.py  work-mode variant: the "See my matches" submit       *)
(*                    handler (Strategy B, Scheme B) and llm_explain.      *)
(*                                                                         *)
(* Number representation.  Python floats are modelled by exact values:     *)
(*   - a RIASEC score is held in quarter-percent units (4 * score), so     *)
(*     50.0 is 200; (raw / 16) * 100 is exact in binary floating point;    *)
(*   - a Match_Score is held in half points (2 * score), so 1.5 is 3;      *)
(*   - a cosine is held as the fraction [n, d] of its square (all          *)
(*     components are non-negative, so the order of the squares is the     *)
(*     order of the cosines).                                              *)
(***************************************************************************)
EXTENDS Integers, Sequences, FiniteSets, TLC

\* Largest programme table drawn for the RIASEC variant (Scheme A).
MaxProgs == 3

\* Largest programme table drawn for the work-mode variant (Scheme B).
MaxRows == 7

\* Questions on the short sheet the page flow is walked with.
MaxQuestions == 4

(***************************************************************************)
(* Generic helpers                                                         *)
(***************************************************************************)
Range(s) == {s[i] : i \in 1..Len(s)}

Min(a, b) == IF a <= b THEN a ELSE b

RECURSIVE SumSeq(_)
SumSeq(s) == IF s = <<>> THEN 0 ELSE Head(s) + SumSeq(Tail(s))

\* s[:n] for n >= 0
Prefix(s, n) == SubSeq(s, 1, Min(n, Len(s)))

\* The subsequence of s whose elements satisfy Keep, in order.
RECURSIVE SelectIdx(_, _, _)
SelectIdx(s, keep, i) ==
    IF i > Len(s) THEN <<>>
    ELSE (IF i \in keep THEN <<s[i]>> ELSE <<>>) \o SelectIdx(s, keep, i + 1)

\* The sequence f as an explicit tuple (a function [i \in 1..n |-> e] is
\* otherwise recomputed at every application).
Tuple(f) == f \o <<>>

\* The function f with its values computed once.
Table(f) == f @@ <<>>

\* All sequences over S of length 0..n.
SeqUpTo(S, n) == UNION {[1..k -> S] : k \in 0..n}

\* Python's sorted(..., reverse=True) / list.sort(reverse=True): descending
\* by key, elements with equal keys keep their original relative order.
\* The result is the permutation that puts element i at position
\* 1 + #{j : key j > key i, or key j = key i and j before i}.
StableRank(s, i, Gt(_, _)) ==
    1 + Cardinality({j \in 1..Len(s) :
            Gt(s[j], s[i]) \/ (~Gt(s[i], s[j]) /\ j < i)})

sorted_reverse(s, Gt(_, _)) ==
    LET rank == Tuple([i \in 1..Len(s) |-> StableRank(s, i, Gt)])
    IN [k \in 1..Len(s) |-> s[CHOOSE i \in 1..Len(s) : rank[i] = k]]

(***************************************************************************)
(* src/app.py -- reference data                                            *)
(***************************************************************************)
\* Keys of riasec_scores, in dict insertion order.
RIASEC == <<"R", "I", "A", "S", "E", "C">>

RIASEC_NAMES ==
    [c \in Range(RIASEC) |->
        CASE c = "R" -> "Realistic"
          [] c = "I" -> "Investigative"
          [] c = "A" -> "Artistic"
          [] c = "S" -> "Social"
          [] c = "E" -> "Enterprising"
          [] c = "C" -> "Conventional"]

Likert == 1..5

\* A Question_ID "Q<n>" is held as [prefix |-> "Q", num |-> n]:
\* q_id.startswith('Q') reads prefix, int(q_id[1:]) reads num.
QId(n) == [prefix |-> "Q", num |-> n]

\* An empty spreadsheet cell of a code column.
NaN == "NaN"

\* A Value_Tags cell: empty, or the comma-separated text as the sequence of
\* its stripped items.
NoTags == [na |-> TRUE, items |-> <<>>]

Tags(items) == [na |-> FALSE, items |-> items]

(***************************************************************************)
(* src/app.py -- Strategy A: calculate_riasec_scores                       *)
(***************************************************************************)
\* responses is a dict: a sequence of [q_id, response] items in insertion
\* order, no q_id twice.
Has(responses, q_id) == \E i \in 1..Len(responses) : responses[i].q_id = q_id

Get(responses, q_id) ==
    responses[CHOOSE i \in 1..Len(responses) : responses[i].q_id = q_id].response

\* questions_df[questions_df['Question_ID'] == q_id]: the matching row indices.
QuestionRows(questions_df, q_id) ==
    {i \in 1..Len(questions_df) : questions_df[i].Question_ID = q_id}

\* One iteration of the loop at lines 129-135 on item `it`, from the running
\* result acc = [err, scores].  An exception ends the pass: later items
\* leave acc alone.
AddResponse(acc, it, questions_df) ==
    IF acc.err # "none" THEN acc
    ELSE IF ~(it.q_id.prefix = "Q" /\ it.q_id.num <= 24) THEN acc
    ELSE LET rows == QuestionRows(questions_df, it.q_id) IN
         IF rows = {} THEN [acc EXCEPT !.err = "IndexError"]           \* .iloc[0]
         ELSE LET riasec_type ==
                      questions_df[CHOOSE i \in rows : \A j \in rows : i <= j].RIASEC_Type
              IN IF riasec_type \notin DOMAIN acc.scores
                 THEN [acc EXCEPT !.err = "KeyError"]                  \* riasec_scores[...]
                 ELSE [acc EXCEPT !.scores[riasec_type] = @ + (it.response - 1)]

RECURSIVE Accumulate(_, _, _, _)
Accumulate(acc, responses, i, questions_df) ==
    IF i > Len(responses) THEN acc
    ELSE Accumulate(AddResponse(acc, responses[i], questions_df),
                    responses, i + 1, questions_df)

\* Variant of Normalize dividing by 5 points per question (4 x 5 = 20).
NormalizeOld(raw) == (raw * 100 * 4) \div 20

\* (raw / 16) * 100, in quarter-percent units.

Normalize(raw) == (raw * 100 * 4) \div 16

\* [err, scores]: the returned dict, or the exception that left the function.
calculate_riasec_scores(responses, questions_df) ==
    LET zero == [c \in Range(RIASEC) |-> 0]
        acc  == Accumulate([err |-> "none", scores |-> zero], responses, 1, questions_df)
    IN IF acc.err # "none" THEN acc
       ELSE [err |-> "none",
             scores |-> Table([c \in Range(RIASEC) |-> Normalize(acc.scores[c])])]

(***************************************************************************)
(* src/app.py -- get_top_riasec, get_top_values                            *)
(***************************************************************************)
ItemGt(a, b) == a.score > b.score

\* riasec_scores.items(), in the dict's insertion order
Items(riasec_scores) ==
    Tuple([i \in 1..Len(RIASEC) |-> [code |-> RIASEC[i], score |-> riasec_scores[RIASEC[i]]]])

\* Variant of get_top_riasec whose sort puts the later of two equal scores
\* first.
ItemGtLaterFirst(a, b) ==
    \/ a.score > b.score
    \/ /\ a.score = b.score
       /\ \E i, j \in 1..Len(RIASEC) : RIASEC[i] = a.code /\ RIASEC[j] = b.code /\ i > j

get_top_riasec_later_first(riasec_scores, n) ==
    LET sorted_codes == sorted_reverse(Items(riasec_scores), ItemGtLaterFirst)
    IN [i \in 1..Min(n, Len(sorted_codes)) |-> sorted_codes[i].code]

get_top_riasec(riasec_scores, n) ==
    LET sorted_codes == sorted_reverse(Items(riasec_scores), ItemGt)
    IN [i \in 1..Min(n, Len(sorted_codes)) |-> sorted_codes[i].code]

value_mapping ==
    <<[q_id |-> QId(25), value |-> "high-salary"],
      [q_id |-> QId(26), value |-> "helping-people"],
      [q_id |-> QId(27), value |-> "creativity"],
      [q_id |-> QId(28), value |-> "technology"],
      [q_id |-> QId(29), value |-> "work-life-balance"]>>

get_top_values(responses, n) ==
    LET present == {i \in 1..Len(value_mapping) : Has(responses, value_mapping[i].q_id)}
        asked   == SelectIdx(value_mapping, present, 1)
        value_responses ==
            Tuple([i \in 1..Len(asked) |->
                [code |-> asked[i].value, score |-> Get(responses, asked[i].q_id)]])
        sorted_values == sorted_reverse(value_responses, ItemGt)
    IN [i \in 1..Min(n, Len(sorted_values)) |-> sorted_values[i].code]

(***************************************************************************)
(* src/app.py -- Scheme A: match_programmes                                *)
(***************************************************************************)
\* A programmes_df row is [Programme_ID, Primary_RIASEC, Secondary_RIASEC,
\* Tertiary_RIASEC (a code or NaN), Value_Tags (NoTags or Tags(items))].  Programme_Name and Faculty
\* are copied through unread and are left out.
Rule(hit, points, detail) ==
    IF hit THEN [score |-> points, details |-> <<detail>>]
    ELSE [score |-> 0, details |-> <<>>]

NoRule == [score |-> 0, details |-> <<>>]

\* lines 196-202, in half points
FirstRule(top_riasec, prog_primary, prog_secondary) ==
    IF top_riasec[1] = prog_primary
    THEN Rule(TRUE, 2 * 5, <<"top interest matches primary focus", RIASEC_NAMES[top_riasec[1]]>>)
    ELSE Rule(top_riasec[1] = prog_secondary, 2 * 3,
              <<"top interest matches a key component", RIASEC_NAMES[top_riasec[1]]>>)

\* Variant of SecondRule giving 3 points for the secondary tag.
SecondRuleThree(top_riasec, prog_primary, prog_secondary, prog_tertiary) ==
    IF ~(Len(top_riasec) > 1) THEN NoRule
    ELSE IF top_riasec[2] = prog_primary
    THEN Rule(TRUE, 2 * 3, <<"secondary interest matches primary focus", RIASEC_NAMES[top_riasec[2]]>>)
    ELSE IF top_riasec[2] = prog_secondary
    THEN Rule(TRUE, 2 * 3, <<"secondary interest matches a component", RIASEC_NAMES[top_riasec[2]]>>)
    ELSE Rule(prog_tertiary # "None" /\ top_riasec[2] = prog_tertiary, 2 * 1,
              <<"secondary interest aligns with programme aspects", RIASEC_NAMES[top_riasec[2]]>>)

\* lines 204-214
SecondRule(top_riasec, prog_primary, prog_secondary, prog_tertiary) ==
    IF ~(Len(top_riasec) > 1) THEN NoRule
    ELSE IF top_riasec[2] = prog_primary
    THEN Rule(TRUE, 2 * 3, <<"secondary interest matches primary focus", RIASEC_NAMES[top_riasec[2]]>>)
    ELSE IF top_riasec[2] = prog_secondary
    THEN Rule(TRUE, 2 * 2, <<"secondary interest matches a component", RIASEC_NAMES[top_riasec[2]]>>)
    ELSE Rule(prog_tertiary # "None" /\ top_riasec[2] = prog_tertiary, 2 * 1,
              <<"secondary interest aligns with programme aspects", RIASEC_NAMES[top_riasec[2]]>>)

\* lines 216-220
ThirdRule(top_riasec, prog_primary) ==
    IF ~(Len(top_riasec) > 2) THEN NoRule
    ELSE Rule(top_riasec[3] = prog_primary, 2 * 1,
              <<"third interest matches the programme focus", RIASEC_NAMES[top_riasec[3]]>>)

\* Variant of BonusRule that tests the first interest only.
BonusRuleFirstOnly(top_riasec, prog_primary, prog_secondary) ==
    LET prog_top2 == {prog_primary, prog_secondary}
    IN Rule(Len(top_riasec) >= 2 /\ top_riasec[1] \in prog_top2,
            2 * 2, <<"Strong alignment">>)

\* lines 222-226
BonusRule(top_riasec, prog_primary, prog_secondary) ==
    LET prog_top2 == {prog_primary, prog_secondary}
    IN Rule(Len(top_riasec) >= 2 /\ top_riasec[1] \in prog_top2 /\ top_riasec[2] \in prog_top2,
            2 * 2, <<"Strong alignment">>)

\* Variant of ValueRule weighting a shared value like a primary match (5).
ValueRuleFive(top_values, Value_Tags) ==
    IF Value_Tags.na THEN NoRule
    ELSE LET prog_values   == Range(Value_Tags.items)
             hits          == {i \in 1..Len(top_values) : top_values[i] \in prog_values}
             value_matches == SelectIdx(top_values, hits, 1)
         IN [score   |-> 10 * Len(value_matches),
             details |-> IF value_matches # <<>>
                         THEN <<<<"Shares your values", value_matches>>>> ELSE <<>>]

\* lines 228-237: +1.5 (3 half points) for each top value among the tags
ValueRule(top_values, Value_Tags) ==
    IF Value_Tags.na THEN NoRule
    ELSE LET prog_values   == Range(Value_Tags.items)
             hits          == {i \in 1..Len(top_values) : top_values[i] \in prog_values}
             value_matches == SelectIdx(top_values, hits, 1)
         IN [score   |-> 3 * Len(value_matches),
             details |-> IF value_matches # <<>>
                         THEN <<<<"Shares your values", value_matches>>>> ELSE <<>>]

\* One pass of the loop body, lines 188-249: the dict appended to scores.
ScoreRow(top_riasec, top_values, row) ==
    LET prog_primary   == row.Primary_RIASEC
        prog_secondary == row.Secondary_RIASEC
        prog_tertiary  == IF row.Tertiary_RIASEC # NaN THEN row.Tertiary_RIASEC ELSE "None"
        rules == <<FirstRule(top_riasec, prog_primary, prog_secondary),
                   SecondRule(top_riasec, prog_primary, prog_secondary, prog_tertiary),
                   ThirdRule(top_riasec, prog_primary),
                   BonusRule(top_riasec, prog_primary, prog_secondary),
                   ValueRule(top_values, row.Value_Tags)>>
    IN [Programme_ID     |-> row.Programme_ID,
        Primary_RIASEC   |-> prog_primary,
        Secondary_RIASEC |-> prog_secondary,
        Tertiary_RIASEC  |-> prog_tertiary,
        Value_Tags       |-> row.Value_Tags,
        Match_Score      |-> SumSeq([i \in 1..Len(rules) |-> rules[i].score]),
        Match_Details    |-> rules[1].details \o rules[2].details \o rules[3].details
                             \o rules[4].details \o rules[5].details]

\* DataFrame.sort_values('Match_Score', ascending=False) with the default
\* kind='quicksort': the rows in descending score order; the library leaves
\* the order of rows with equal scores open (only kind='mergesort'/'stable'
\* keep it), so every descending arrangement is a possible result.
sort_values_descending(frame) ==
    {[k \in 1..Len(frame) |-> frame[p[k]]] :
        p \in {q \in Permutations(1..Len(frame)) :
                 \A i, j \in 1..Len(frame) :
                     i < j => frame[q[i]].Match_Score >= frame[q[j]].Match_Score}}

\* Variant of head that keeps every row.
head_all(frame, n) == frame

\* .head(top_n)
head(frame, n) == Prefix(frame, n)

\* The set of results the call can give: each is [err, results_df].
match_programmes(riasec_scores, top_values, programmes_df, top_n) ==
    LET top_riasec == get_top_riasec(riasec_scores, 3)
        scores == Tuple([i \in 1..Len(programmes_df) |->
                      ScoreRow(top_riasec, top_values, programmes_df[i])])
    IN IF scores = <<>>
       THEN {[err |-> "KeyError", results_df |-> <<>>]}   \* no 'Match_Score' column
       ELSE {[err |-> "none", results_df |-> head(sorted, top_n)] :
                sorted \in sort_values_descending(scores)}

(***************************************************************************)
(* RIASEC variant: the inputs drawn                                        *)
(***************************************************************************)
Codes == Range(RIASEC)

\* Questions sheet layouts: Q1..Q24 are the interest questions, four per
\* code; Q25..Q29 are the value questions and carry no code.
BlockedType(n) == IF n <= 24 THEN RIASEC[((n - 1) \div 4) + 1] ELSE NaN

InterleavedType(n) == IF n <= 24 THEN RIASEC[((n - 1) % 6) + 1] ELSE NaN

\* the blocked sheet with one cell holding a code outside R,I,A,S,E,C
CorruptType(n) == IF n = 7 THEN "X" ELSE BlockedType(n)

QuestionsSheet(Type(_)) ==
    [n \in 1..29 |-> [Question_ID |-> QId(n), RIASEC_Type |-> Type(n)]]

BlockedSheet == QuestionsSheet(BlockedType)

QuestionSheets ==
    {BlockedSheet, QuestionsSheet(InterleavedType), QuestionsSheet(CorruptType)}

\* The response record that answers the questions in `asked` (a subset of
\* 1..29), in questionnaire order: base[c] on the questions the blocked
\* sheet tags c, vals[k] on value question Q(24+k).
Record(base, vals, asked) ==
    LET all == [n \in 1..29 |->
                   [q_id     |-> QId(n),
                    response |-> IF n <= 24 THEN base[BlockedType(n)] ELSE vals[n - 24]]]
    IN SelectIdx(all, asked, 1)

UniformBases == {[c \in Codes |-> v] : v \in Likert}

VariedBases == [Codes -> {1, 3, 4}]

\* among R, I, A, S: one code answered 5, one 4, one 3; every other code 1
RankedBases ==
    {b \in [Codes -> {1, 3, 4, 5}] :
        /\ b["E"] = 1 /\ b["C"] = 1
        /\ \A v \in {3, 4, 5} : Cardinality({c \in Codes : b[c] = v}) = 1}

ValueAnswers == {<<3, 5, 5, 1, 4>>, <<2, 2, 2, 2, 2>>}

\* incomplete records: one question left out, the value block left out,
\* nothing answered
Incomplete ==
    {(1..29) \ {k} : k \in {1, 12, 24, 27}} \cup {1..24, {}}

\* the programme kinds a table is drawn from
ProgrammeKinds ==
    {[Primary_RIASEC |-> "R", Secondary_RIASEC |-> "I", Tertiary_RIASEC |-> NaN,
      Value_Tags |-> NoTags],
     [Primary_RIASEC |-> "I", Secondary_RIASEC |-> "R", Tertiary_RIASEC |-> "A",
      Value_Tags |-> Tags(<<"technology", "high-salary">>)],
     [Primary_RIASEC |-> "S", Secondary_RIASEC |-> "S", Tertiary_RIASEC |-> "E",
      Value_Tags |-> Tags(<<"helping-people", "creativity", "work-life-balance">>)]}

\* a Programmes sheet: row i carries Programme_ID i
ProgrammesSheet(kinds) ==
    [i \in 1..Len(kinds) |->
        [Programme_ID     |-> i,
         Primary_RIASEC   |-> kinds[i].Primary_RIASEC,
         Secondary_RIASEC |-> kinds[i].Secondary_RIASEC,
         Tertiary_RIASEC  |-> kinds[i].Tertiary_RIASEC,
         Value_Tags       |-> kinds[i].Value_Tags]]

ProgrammeSheets == {ProgrammesSheet(k) : k \in SeqUpTo(ProgrammeKinds, MaxProgs)}

ReferenceSheet ==
    ProgrammesSheet([i \in 1..3 |->
        CHOOSE k \in ProgrammeKinds : k.Primary_RIASEC = <<"R", "I", "S">>[i]])

\* a sheet on which one profile collects the most points a programme can
\* earn: I/R/A sharing three values, its mirror R/I, and I/I
FullMatchSheet ==
    ProgrammesSheet(
        <<[Primary_RIASEC |-> "I", Secondary_RIASEC |-> "R", Tertiary_RIASEC |-> "A",
           Value_Tags |-> Tags(<<"high-salary", "helping-people", "creativity">>)],
          [Primary_RIASEC |-> "R", Secondary_RIASEC |-> "I", Tertiary_RIASEC |-> NaN,
           Value_Tags |-> Tags(<<"creativity", "creativity">>)],
          [Primary_RIASEC |-> "I", Secondary_RIASEC |-> "I", Tertiary_RIASEC |-> "R",
           Value_Tags |-> NoTags]>>)

(***************************************************************************)
(* Text.  A Python str is held as the sequence of its characters, so that  *)
(* lower(), strip(), split(",") and the substring test `kw in t` are       *)
(* computed on the characters.                                             *)
(***************************************************************************)
UpperCase == <<"A", "B", "C", "D", "E", "F", "G", "H", "I", "J", "K", "L", "M",
               "N", "O", "P", "Q", "R", "S", "T", "U", "V", "W", "X", "Y", "Z">>

LowerCase == <<"a", "b", "c", "d", "e", "f", "g", "h", "i", "j", "k", "l", "m",
               "n", "o", "p", "q", "r", "s", "t", "u", "v", "w", "x", "y", "z">>

LowerChar(c) ==
    IF \E i \in 1..Len(UpperCase) : UpperCase[i] = c
    THEN LowerCase[CHOOSE i \in 1..Len(UpperCase) : UpperCase[i] = c]
    ELSE c

\* t.lower()
Lower(t) == Tuple([i \in 1..Len(t) |-> LowerChar(t[i])])

IsSpace(c) == c = " "

\* t.strip()
RECURSIVE LStrip(_)
LStrip(t) == IF t # <<>> /\ IsSpace(Head(t)) THEN LStrip(Tail(t)) ELSE t

RECURSIVE RStrip(_)
RStrip(t) ==
    IF t # <<>> /\ IsSpace(t[Len(t)]) THEN RStrip(SubSeq(t, 1, Len(t) - 1)) ELSE t

Strip(t) == RStrip(LStrip(t))

\* t.split(","): the pieces between commas; "" gives one empty piece
RECURSIVE SplitFrom(_, _, _)
SplitFrom(t, i, piece) ==
    IF i > Len(t) THEN <<piece>>
    ELSE IF t[i] = "," THEN <<piece>> \o SplitFrom(t, i + 1, <<>>)
    ELSE SplitFrom(t, i + 1, Append(piece, t[i]))

Split(t) == SplitFrom(t, 1, <<>>)

\* kw in t
Contains(t, kw) ==
    \E i \in 0..(Len(t) - Len(kw)) :
        t[i + 1] = kw[1] /\ SubSeq(t, i + 1, i + Len(kw)) = kw

(***************************************************************************)
(* Fractions.  A Python float is held as the exact fraction [n, d], d > 0, *)
(* in lowest terms.                                                        *)
(***************************************************************************)
RECURSIVE GCD(_, _)
GCD(a, b) == IF b = 0 THEN a ELSE GCD(b, a % b)

Frac(n, d) == LET g == GCD(n, d) IN [n |-> n \div g, d |-> d \div g]

Zero == [n |-> 0, d |-> 1]

FAdd(a, b) ==
    LET g == GCD(a.d, b.d)
    IN Frac(a.n * (b.d \div g) + b.n * (a.d \div g), a.d * (b.d \div g))

FMul(a, b) ==
    LET g1 == GCD(a.n, b.d)
        g2 == GCD(b.n, a.d)
    IN IF a.n = 0 \/ b.n = 0 THEN Zero
       ELSE [n |-> (a.n \div g1) * (b.n \div g2), d |-> (a.d \div g2) * (b.d \div g1)]

\* a / b for b # 0
FDiv(a, b) == FMul(a, [n |-> b.d, d |-> b.n])

FGt(a, b) == a.n * b.d > b.n * a.d

RECURSIVE FSum(_)
FSum(s) == IF s = <<>> THEN Zero ELSE FAdd(Head(s), FSum(Tail(s)))

\* round(x) for x >= 0: to the nearest integer, a half to the even one
Round(x) ==
    LET q == x.n \div x.d
        r == 2 * (x.n % x.d)
    IN IF r < x.d THEN q
       ELSE IF r > x.d THEN q + 1
       ELSE IF q % 2 = 0 THEN q ELSE q + 1

(***************************************************************************)
(* src/data/app.py -- configuration                                        *)
(***************************************************************************)
WORK_MODES == <<"builder", "analyst", "people", "creative", "researcher",
                "operator", "systems">>

Modes == Range(WORK_MODES)

\* the characters of each mode name
ModeChars ==
    [m \in Modes |->
        CASE m = "builder"    -> <<"b", "u", "i", "l", "d", "e", "r">>
          [] m = "analyst"    -> <<"a", "n", "a", "l", "y", "s", "t">>
          [] m = "people"     -> <<"p", "e", "o", "p", "l", "e">>
          [] m = "creative"   -> <<"c", "r", "e", "a", "t", "i", "v", "e">>
          [] m = "researcher" -> <<"r", "e", "s", "e", "a", "r", "c", "h", "e", "r">>
          [] m = "operator"   -> <<"o", "p", "e", "r", "a", "t", "o", "r">>
          [] m = "systems"    -> <<"s", "y", "s", "t", "e", "m", "s">>]

\* (mode, keyword) in the order the nested loops of extract_modes_from_text
\* visit them
TEXT_KEYWORDS ==
    <<[mode |-> "builder", kw |-> <<"p", "r", "o", "t", "o", "t", "y", "p", "e">>],
      [mode |-> "builder", kw |-> <<"h", "a", "r", "d", "w", "a", "r", "e">>],
      [mode |-> "builder", kw |-> <<"t", "o", "o", "l", "i", "n", "g">>],
      [mode |-> "builder", kw |-> <<"f", "a", "b", "r", "i", "c", "a", "t", "i", "o", "n">>],
      [mode |-> "builder", kw |-> <<"m", "a", "n", "u", "f", "a", "c", "t", "u", "r">>],
      [mode |-> "builder", kw |-> <<"m", "e", "c", "h">>],
      [mode |-> "builder", kw |-> <<"h", "a", "n", "d", "s", "-", "o", "n">>],
      [mode |-> "builder", kw |-> <<"l", "a", "b">>],
      [mode |-> "builder", kw |-> <<"r", "o", "b", "o", "t">>],
      [mode |-> "builder", kw |-> <<"c", "a", "d">>],
      [mode |-> "builder", kw |-> <<"s", "o", "l", "i", "d", "w", "o", "r", "k", "s">>],
      [mode |-> "builder", kw |-> <<"a", "u", "t", "o", "c", "a", "d">>],
      [mode |-> "builder", kw |-> <<"a", "r", "d", "u", "i", "n", "o">>],
      [mode |-> "analyst", kw |-> <<"d", "a", "t", "a">>],
      [mode |-> "analyst", kw |-> <<"m", "o", "d", "e", "l">>],
      [mode |-> "analyst", kw |-> <<"a", "n", "a", "l", "y", "s", "i", "s">>],
      [mode |-> "analyst", kw |-> <<"s", "t", "a", "t", "i", "s", "t", "i", "c", "s">>],
      [mode |-> "analyst", kw |-> <<"a", "n", "a", "l", "y", "t", "i", "c", "s">>],
      [mode |-> "analyst", kw |-> <<"e", "x", "c", "e", "l">>],
      [mode |-> "analyst", kw |-> <<"s", "q", "l">>],
      [mode |-> "analyst", kw |-> <<"p", "y", "t", "h", "o", "n">>],
      [mode |-> "analyst", kw |-> <<" ", "r", " ">>],
      [mode |-> "analyst", kw |-> <<"m", "a", "t", "l", "a", "b">>],
      [mode |-> "analyst", kw |-> <<"f", "o", "r", "e", "c", "a", "s", "t">>],
      [mode |-> "analyst", kw |-> <<"o", "p", "t", "i", "m", "i">>],
      [mode |-> "analyst", kw |-> <<"q", "u", "a", "n", "t">>],
      [mode |-> "people", kw |-> <<"i", "n", "t", "e", "r", "v", "i", "e", "w">>],
      [mode |-> "people", kw |-> <<"u", "s", "e", "r", "s">>],
      [mode |-> "people", kw |-> <<"s", "t", "a", "k", "e", "h", "o", "l", "d", "e", "r">>],
      [mode |-> "people", kw |-> <<"t", "e", "a", "m">>],
      [mode |-> "people", kw |-> <<"c", "l", "i", "e", "n", "t">>],
      [mode |-> "people", kw |-> <<"c", "o", "m", "m", "u", "n", "i", "t", "y">>],
      [mode |-> "people", kw |-> <<"l", "e", "a", "d">>],
      [mode |-> "people", kw |-> <<"m", "e", "n", "t", "o", "r">>],
      [mode |-> "people", kw |-> <<"v", "o", "l", "u", "n", "t", "e", "e", "r">>],
      [mode |-> "people", kw |-> <<"c", "l", "u", "b">>],
      [mode |-> "creative", kw |-> <<"d", "e", "s", "i", "g", "n">>],
      [mode |-> "creative", kw |-> <<"u", "i">>],
      [mode |-> "creative", kw |-> <<"u", "x">>],
      [mode |-> "creative", kw |-> <<"s", "k", "e", "t", "c", "h">>],
      [mode |-> "creative", kw |-> <<"f", "i", "g", "m", "a">>],
      [mode |-> "creative", kw |-> <<"a", "e", "s", "t", "h", "e", "t">>],
      [mode |-> "creative", kw |-> <<"v", "i", "s", "u", "a", "l">>],
      [mode |-> "creative", kw |-> <<"b", "r", "a", "n", "d">>],
      [mode |-> "creative", kw |-> <<"s", "t", "o", "r", "y">>],
      [mode |-> "creative", kw |-> <<"m", "e", "d", "i", "a">>],
      [mode |-> "researcher", kw |-> <<"p", "a", "p", "e", "r">>],
      [mode |-> "researcher", kw |-> <<"r", "e", "s", "e", "a", "r", "c", "h">>],
      [mode |-> "researcher", kw |-> <<"e", "x", "p", "e", "r", "i", "m", "e", "n", "t">>],
      [mode |-> "researcher", kw |-> <<"h", "y", "p", "o", "t", "h", "e", "s", "i", "s">>],
      [mode |-> "researcher", kw |-> <<"l", "i", "t", "e", "r", "a", "t", "u", "r", "e">>],
      [mode |-> "researcher", kw |-> <<"s", "t", "u", "d", "y">>],
      [mode |-> "researcher", kw |-> <<"t", "h", "e", "o", "r", "y">>],
      [mode |-> "researcher", kw |-> <<"j", "o", "u", "r", "n", "a", "l">>],
      [mode |-> "researcher", kw |-> <<"s", "i", "m", "u", "l", "a", "t", "i", "o", "n">>],
      [mode |-> "operator", kw |-> <<"p", "r", "o", "c", "e", "s", "s">>],
      [mode |-> "operator", kw |-> <<"o", "p", "s">>],
      [mode |-> "operator", kw |-> <<"o", "p", "e", "r", "a", "t", "i", "o", "n", "s">>],
      [mode |-> "operator", kw |-> <<"s", "o", "p">>],
      [mode |-> "operator", kw |-> <<"c", "h", "e", "c", "k", "l", "i", "s", "t">>],
      [mode |-> "operator", kw |-> <<"m", "a", "i", "n", "t", "e", "n", "a", "n", "c", "e">>],
      [mode |-> "operator", kw |-> <<"l", "o", "g", "i", "s", "t", "i", "c", "s">>],
      [mode |-> "operator", kw |-> <<"s", "u", "p", "p", "l", "y">>],
      [mode |-> "operator", kw |-> <<"s", "a", "f", "e", "t", "y">>],
      [mode |-> "operator", kw |-> <<"c", "o", "m", "p", "l", "i", "a", "n", "c", "e">>],
      [mode |-> "systems", kw |-> <<"s", "y", "s", "t", "e", "m">>],
      [mode |-> "systems", kw |-> <<"a", "r", "c", "h", "i", "t", "e", "c", "t", "u", "r", "e">>],
      [mode |-> "systems", kw |-> <<"w", "o", "r", "k", "f", "l", "o", "w">>],
      [mode |-> "systems", kw |-> <<"p", "i", "p", "e", "l", "i", "n", "e">>],
      [mode |-> "systems", kw |-> <<"i", "n", "t", "e", "g", "r", "a", "t", "i", "o", "n">>],
      [mode |-> "systems", kw |-> <<"p", "l", "a", "t", "f", "o", "r", "m">>],
      [mode |-> "systems", kw |-> <<"n", "e", "t", "w", "o", "r", "k">>],
      [mode |-> "systems", kw |-> <<"i", "n", "f", "r", "a", "s", "t", "r", "u", "c", "t", "u", "r", "e">>]>>

\* QUESTIONS: the choices of each of the six questions (prompts left out)
QUESTIONS ==
    <<<<"Prototype hardware",
        "Design screens/UX",
        "Interview potential users",
        "Build the data pipeline",
        "Coordinate tasks & timeline",
        "None of these">>,
      <<"Code backend",
        "Run user tests",
        "Project manage",
        "Design UI",
        "Analyze traffic",
        "None of these">>,
      <<"Lab experiments with equipment",
        "Fieldwork with stakeholders",
        "Theoretical modelling & proofs",
        "Business case with ops plan",
        "System integration across tools",
        "None of these">>,
      <<"Checklists & SOPs",
        "Explore ideas then refine",
        "Analyse datasets for insight",
        "Design the overall architecture",
        "None of these">>,
      <<"Hands-on building and testing",
        "Making things clearer for people",
        "Finding patterns in messy data",
        "Crafting visuals & interactions",
        "None of these">>,
      <<"Debug circuitry/mechanics",
        "Trace code/data flows",
        "Talk to users to understand context",
        "Re-organise process/workflow",
        "None of these">>>>

\* MODE_MAP: choice -> its (mode, weight) items
MODE_MAP ==
    <<[choice |-> "Prototype hardware",
       items |-> <<[k |-> "builder", v |-> 2], [k |-> "systems", v |-> 1]>>],
      [choice |-> "Design screens/UX",
       items |-> <<[k |-> "creative", v |-> 2], [k |-> "people", v |-> 1]>>],
      [choice |-> "Interview potential users",
       items |-> <<[k |-> "people", v |-> 2], [k |-> "analyst", v |-> 1]>>],
      [choice |-> "Build the data pipeline",
       items |-> <<[k |-> "analyst", v |-> 2], [k |-> "systems", v |-> 1]>>],
      [choice |-> "Coordinate tasks & timeline",
       items |-> <<[k |-> "operator", v |-> 2], [k |-> "people", v |-> 1]>>],
      [choice |-> "Code backend",
       items |-> <<[k |-> "analyst", v |-> 2], [k |-> "systems", v |-> 1]>>],
      [choice |-> "Run user tests",
       items |-> <<[k |-> "people", v |-> 2], [k |-> "analyst", v |-> 1]>>],
      [choice |-> "Project manage",
       items |-> <<[k |-> "operator", v |-> 2], [k |-> "people", v |-> 1]>>],
      [choice |-> "Design UI",
       items |-> <<[k |-> "creative", v |-> 2], [k |-> "people", v |-> 1]>>],
      [choice |-> "Analyze traffic",
       items |-> <<[k |-> "analyst", v |-> 2], [k |-> "systems", v |-> 1]>>],
      [choice |-> "Lab experiments with equipment",
       items |-> <<[k |-> "builder", v |-> 2], [k |-> "researcher", v |-> 1]>>],
      [choice |-> "Fieldwork with stakeholders",
       items |-> <<[k |-> "people", v |-> 2], [k |-> "operator", v |-> 1]>>],
      [choice |-> "Theoretical modelling & proofs",
       items |-> <<[k |-> "researcher", v |-> 2], [k |-> "analyst", v |-> 1]>>],
      [choice |-> "Business case with ops plan",
       items |-> <<[k |-> "operator", v |-> 2], [k |-> "analyst", v |-> 1]>>],
      [choice |-> "System integration across tools",
       items |-> <<[k |-> "systems", v |-> 2], [k |-> "builder", v |-> 1]>>],
      [choice |-> "Checklists & SOPs",
       items |-> <<[k |-> "operator", v |-> 2], [k |-> "systems", v |-> 1]>>],
      [choice |-> "Explore ideas then refine",
       items |-> <<[k |-> "creative", v |-> 2], [k |-> "researcher", v |-> 1]>>],
      [choice |-> "Analyse datasets for insight",
       items |-> <<[k |-> "analyst", v |-> 2], [k |-> "systems", v |-> 1]>>],
      [choice |-> "Design the overall architecture",
       items |-> <<[k |-> "systems", v |-> 2], [k |-> "analyst", v |-> 1]>>],
      [choice |-> "Hands-on building and testing",
       items |-> <<[k |-> "builder", v |-> 2], [k |-> "systems", v |-> 1]>>],
      [choice |-> "Making things clearer for people",
       items |-> <<[k |-> "people", v |-> 2], [k |-> "operator", v |-> 1]>>],
      [choice |-> "Finding patterns in messy data",
       items |-> <<[k |-> "analyst", v |-> 2], [k |-> "researcher", v |-> 1]>>],
      [choice |-> "Crafting visuals & interactions",
       items |-> <<[k |-> "creative", v |-> 2], [k |-> "people", v |-> 1]>>],
      [choice |-> "Debug circuitry/mechanics",
       items |-> <<[k |-> "builder", v |-> 2], [k |-> "systems", v |-> 1]>>],
      [choice |-> "Trace code/data flows",
       items |-> <<[k |-> "analyst", v |-> 2], [k |-> "systems", v |-> 1]>>],
      [choice |-> "Talk to users to understand context",
       items |-> <<[k |-> "people", v |-> 2], [k |-> "analyst", v |-> 1]>>],
      [choice |-> "Re-organise process/workflow",
       items |-> <<[k |-> "operator", v |-> 2], [k |-> "systems", v |-> 1]>>]>>

IGNORES == {"None of these"}

\* MODE_MAP.get(choice, {}).items()
MapItems(choice) ==
    IF \E i \in 1..Len(MODE_MAP) : MODE_MAP[i].choice = choice
    THEN MODE_MAP[CHOOSE i \in 1..Len(MODE_MAP) : MODE_MAP[i].choice = choice].items
    ELSE <<>>

(***************************************************************************)
(* src/data/app.py -- extract_modes_from_text, cosine                      *)
(***************************************************************************)
\* vec[mode]: the number of the mode's keywords found in t
KeywordHits(t, mode) ==
    Cardinality({i \in 1..Len(TEXT_KEYWORDS) :
        TEXT_KEYWORDS[i].mode = mode /\ Contains(t, TEXT_KEYWORDS[i].kw)})

\* Variant of extract_modes_from_text returning the tallies unscaled.
extract_modes_unscaled(text) ==
    LET t   == Lower(text)
        vec == Table([m \in Modes |-> KeywordHits(t, m)])
    IN Table([m \in Modes |-> Frac(vec[m], 1)])

\* text is a character sequence; None and "" are both <<>> (text or "")
extract_modes_from_text(text) ==
    LET t     == Lower(text)
        vec   == Table([m \in Modes |-> KeywordHits(t, m)])
        hits  == SumSeq([i \in 1..Len(WORK_MODES) |-> vec[WORK_MODES[i]]])
        scale == 6
    IN IF hits = 0 THEN [m \in Modes |-> Zero]
       ELSE Table([m \in Modes |-> FMul(Frac(vec[m], hits), Frac(scale, 1))])

\* sum(a.get(k,0)*b.get(k,0) for k in WORK_MODES)
Dot(a, b) ==
    FSum([i \in 1..Len(WORK_MODES) |-> FMul(a[WORK_MODES[i]], b[WORK_MODES[i]])])

\* Variant of cosine that takes a zero norm as a full match.
cosine_zero_norm_one(a, b) ==
    LET dot == Dot(a, b)
        na2 == Dot(a, a)
        nb2 == Dot(b, b)
    IN IF na2.n = 0 \/ nb2.n = 0 THEN Frac(1, 1)
       ELSE FDiv(FMul(dot, dot), FMul(na2, nb2))

\* The square of cosine(a, b): 0 when na == 0 or nb == 0 (a norm is zero
\* exactly when its square is), else dot / (na * nb), squared.
cosine(a, b) ==
    LET dot == Dot(a, b)
        na2 == Dot(a, a)
        nb2 == Dot(b, b)
    IN IF na2.n = 0 \/ nb2.n = 0 THEN Zero
       ELSE FDiv(FMul(dot, dot), FMul(na2, nb2))

\* round(mfit * 100), from the square sq of mfit
RoundPercent(sq) ==
    LET q == CHOOSE t \in 0..100 :
                 /\ t * t * sq.d <= 10000 * sq.n
                 /\ (t + 1) * (t + 1) * sq.d > 10000 * sq.n
        half == (2 * q + 1) * (2 * q + 1) * sq.d
    IN IF 40000 * sq.n < half THEN q
       ELSE IF 40000 * sq.n > half THEN q + 1
       ELSE IF q % 2 = 0 THEN q ELSE q + 1

(***************************************************************************)
(* src/data/app.py -- the submit handler's computations                    *)
(***************************************************************************)
\* what one selected choice adds to mode_vec[m], lines 160-163
ChoiceWeight(choice, m) ==
    IF choice \in IGNORES THEN 0
    ELSE LET items == MapItems(choice)
         IN SumSeq([j \in 1..Len(items) |-> IF items[j].k = m THEN items[j].v ELSE 0])

\* mode_vec[m] after the loop over the questions, lines 158-163; ans[i] is
\* the list selected for question i
McqWeight(ans, m) ==
    SumSeq([i \in 1..Len(QUESTIONS) |->
        SumSeq([j \in 1..Len(ans[i]) |-> ChoiceWeight(ans[i][j], m)])])

\* lines 152: every question has a selection
Complete(ans) == ~ \E i \in 1..Len(QUESTIONS) : Len(ans[i]) = 0

\* Variant of UserMode that leaves the totals undivided.
UserModeUnscaled(ans, about) ==
    LET text_vec == extract_modes_from_text(about)
    IN Table([m \in Modes |-> FAdd(Frac(McqWeight(ans, m), 1), text_vec[m])])

\* lines 155-173: user_mode
UserMode(ans, about) ==
    LET text_vec     == extract_modes_from_text(about)
        max_possible == 24 + 6
    IN Table([m \in Modes |->
          FDiv(FAdd(Frac(McqWeight(ans, m), 1), text_vec[m]), Frac(max_possible, 1))])

\* A programs.csv row is [id, tags_work_modes]; the cell is [na, text] and
\* str() of an empty cell is "nan".  program_name and institution are only
\* displayed: id stands for them.
CellStr(cell) == IF cell.na THEN <<"n", "a", "n">> ELSE cell.text

\* the mode a stripped, lower-cased tag names, or "" when t not in WORK_MODES
TagMode(t) ==
    IF \E m \in Modes : ModeChars[m] = t
    THEN CHOOSE m \in Modes : ModeChars[m] = t
    ELSE ""

row_mode_vec(row) ==
    LET tags  == Split(CellStr(row.tags_work_modes))
        named == Tuple([i \in 1..Len(tags) |-> TagMode(Lower(Strip(tags[i])))])
        mv    == Table([m \in Modes |-> Cardinality({i \in 1..Len(named) : named[i] = m})])
        total == SumSeq([i \in 1..Len(WORK_MODES) |-> mv[WORK_MODES[i]]])
    IN Table([m \in Modes |-> IF total # 0 THEN Frac(mv[m], total) ELSE Zero])

ScoredGt(a, b) == FGt(a.mfit2, b.mfit2)

\* lines 190-196: scored, sorted on the score, cut to six.  An entry holds
\* the square of mode_fit (the score 100 * mode_fit orders the same way) and
\* the row.
Top(user_mode, df) ==
    LET scored == Tuple([i \in 1..Len(df) |->
                     [mfit2 |-> cosine(user_mode, row_mode_vec(df[i])), r |-> df[i]]])
    IN Prefix(sorted_reverse(scored, ScoredGt), 6)

ModeGt(a, b) == FGt(a.v, b.v)

\* line 199, with the percentages of the snapshot line 201
TopModes(user_mode) ==
    LET items == Tuple([i \in 1..Len(WORK_MODES) |->
                     [m |-> WORK_MODES[i], v |-> user_mode[WORK_MODES[i]]]])
        first == Prefix(sorted_reverse(items, ModeGt), 3)
    IN Tuple([i \in 1..Len(first) |->
          [m |-> first[i].m, pct |-> Round(FMul(first[i].v, Frac(100, 1)))]])

\* lines 205-208: the line shown for one entry of top
ShownLine(entry) ==
    LET tags       == Split(CellStr(entry.r.tags_work_modes))
        kept       == {i \in 1..Len(tags) : Strip(tags[i]) # <<>>}
        prog_modes == SelectIdx(Tuple([i \in 1..Len(tags) |-> Strip(tags[i])]), kept, 1)
    IN [program |-> entry.r.id,
        why     |-> [pct |-> RoundPercent(entry.mfit2), modes |-> Prefix(prog_modes, 3)]]

Suggestions(top) == Tuple([i \in 1..Len(top) |-> ShownLine(top[i])])

(***************************************************************************)
(* Work-mode variant: the inputs drawn                                     *)
(***************************************************************************)
\* every question answered with its k-th choice (its last one, "None of
\* these", when it has fewer)
Pick(k) ==
    [i \in 1..Len(QUESTIONS) |-> <<QUESTIONS[i][Min(k, Len(QUESTIONS[i]))]>>]

\* every question answered with its k-th and (k+1)-th choices
Two(k) == [i \in 1..Len(QUESTIONS) |-> <<QUESTIONS[i][k], QUESTIONS[i][k + 1]>>]

\* Pick(1) with the selection of question j emptied
Skipped(j) == [Pick(1) EXCEPT ![j] = <<>>]

\* every question answered with the two options that weigh most for mode m
Heaviest(m) ==
    [i \in 1..Len(QUESTIONS) |->
        LET pairs == {p \in (1..Len(QUESTIONS[i])) \X (1..Len(QUESTIONS[i])) : p[1] < p[2]}
            best  == CHOOSE p \in pairs : \A q \in pairs :
                        ChoiceWeight(QUESTIONS[i][q[1]], m) + ChoiceWeight(QUESTIONS[i][q[2]], m)
                        <= ChoiceWeight(QUESTIONS[i][p[1]], m) + ChoiceWeight(QUESTIONS[i][p[2]], m)
        IN <<QUESTIONS[i][best[1]], QUESTIONS[i][best[2]]>>]

\* a text made of the first keyword listed for mode m
KeywordText(m) ==
    TEXT_KEYWORDS[CHOOSE i \in 1..Len(TEXT_KEYWORDS) :
        /\ TEXT_KEYWORDS[i].mode = m
        /\ \A j \in 1..(i - 1) : TEXT_KEYWORDS[j].mode # m].kw

RECURSIVE JoinWords(_)
JoinWords(words) ==
    IF Len(words) = 0 THEN <<>>
    ELSE IF Len(words) = 1 THEN words[1]
    ELSE words[1] \o <<" ">> \o JoinWords(Tail(words))

\* texts for the keyword tally: one keyword of one mode, one keyword of each
\* of the first four modes ("prototype data interview design"), and a text
\* without any keyword ("No idea")
TallyTexts ==
    {KeywordText(m) : m \in Modes}
    \cup {JoinWords([i \in 1..4 |-> KeywordText(WORK_MODES[i])]),
          <<"N", "o", " ", "i", "d", "e", "a">>}

CompleteAnswers == {Pick(k) : k \in 1..6} \cup {Two(k) : k \in 1..3}

IncompleteAnswers ==
    {Skipped(j) : j \in 1..Len(QUESTIONS)} \cup {[i \in 1..Len(QUESTIONS) |-> <<>>]}

\* the text box: empty, the form's own example, and a short mixed-case text
AboutTexts ==
    {<<>>,
     <<"b", "u", "i", "l", "t", " ", "a", " ", "r", "o", "b", "o", "t", " ", "a", "r", "m", ";", " ", "e", "n", "j", "o", "y", " ", "P", "y", "t", "h", "o", "n", " ", "d", "a", "t", "a", " ", "w", "o", "r", "k", ";", " ", "l", "e", "d", " ", "a", " ", "d", "e", "s", "i", "g", "n", " ", "c", "l", "u", "b">>,
     <<"R", "o", "b", "o", "t", " ", "C", "L", "U", "B">>}

Cell(text) == [na |-> FALSE, text |-> text]

EmptyCell == [na |-> TRUE, text |-> <<>>]

\* tags_work_modes cells: "builder, systems" and "Analyst,analyst, people"
RankingCells ==
    {Cell(<<"b", "u", "i", "l", "d", "e", "r", ",", " ", "s", "y", "s", "t", "e", "m", "s">>),
     Cell(<<"A", "n", "a", "l", "y", "s", "t", ",", "a", "n", "a", "l", "y", "s", "t", ",", " ", "p", "e", "o", "p", "l", "e">>)}

\* a programs.csv table: row i carries id i
ProgramsTable(cells) ==
    [i \in 1..Len(cells) |-> [id |-> i, tags_work_modes |-> cells[i]]]

ProgramsTables == {ProgramsTable(c) : c \in SeqUpTo(RankingCells, MaxRows)}

\* "builder, systems"; "Analyst,analyst, people"; "wizard"; an empty cell;
\* " Creative , Researcher,operator,Systems"
ReferenceTable ==
    ProgramsTable(
        <<Cell(<<"b", "u", "i", "l", "d", "e", "r", ",", " ", "s", "y", "s", "t", "e", "m", "s">>),
          Cell(<<"A", "n", "a", "l", "y", "s", "t", ",", "a", "n", "a", "l", "y", "s", "t", ",", " ", "p", "e", "o", "p", "l", "e">>),
          Cell(<<"w", "i", "z", "a", "r", "d">>),
          EmptyCell,
          Cell(<<" ", "C", "r", "e", "a", "t", "i", "v", "e", " ", ",", " ", "R", "e", "s", "e", "a", "r", "c", "h", "e", "r", ",", "o", "p", "e", "r", "a", "t", "o", "r", ",", "S", "y", "s", "t", "e", "m", "s">>)>>)

\* os.getenv("OPENAI_API_KEY"): "" when unset
EnvKeys == {"", "sk-env"}

\* the secrets store: no secrets.toml at all, one without the key, one with
SecretStores == {"no secrets file", "no key", "sk-secret"}

(***************************************************************************)
(* State                                                                   *)
(***************************************************************************)
VARIABLES
    \* RIASEC variant (src/app.py)
    responses,       \* st.session_state.responses: a sequence of
                     \* [q_id, response] items in insertion order
    questions_df,    \* the Questions sheet
    programmes_df,   \* the Programmes sheet
    top_n,           \* match_programmes' top_n argument
    riasec_scores,   \* show_results_page's locals, <<>> until assigned
    top_riasec,
    top_values,
    matches,
    page,            \* st.session_state.page
    current_question,\* st.session_state.current_question
    pcA,             \* "results": the results page is to be rendered;
                     \* "shown"; "raised"; "idle" on the other pages;
                     \* "off" when the other variant runs
    errA,            \* the exception that ended the pass, or "none"
    \* work-mode variant (src/data/app.py)
    ans,             \* the six multiselects
    about,           \* the text box
    df,              \* load_programs()
    env_key,         \* os.getenv("OPENAI_API_KEY")
    secrets,         \* st.secrets
    user_mode,       \* the script's globals, <<>> until assigned
    top,
    top_modes,
    shown,           \* the "Suggested programmes" lines on screen
    displayed,       \* the suggestions have been written
    notices,         \* st.info / st.caption texts on screen
    llm_called,      \* llm_explain has been entered
    llm_text,        \* "None", "" or the text returned
    pcB,             \* "form"; "explain": at the llm_explain call, line 213;
                     \* "done"; "raised"; "off" when the other variant runs
    errB

varsA == <<responses, questions_df, programmes_df, top_n, riasec_scores,
           top_riasec, top_values, matches, page, current_question, pcA, errA>>

varsB == <<ans, about, df, env_key, secrets, user_mode, top, top_modes, shown,
           displayed, notices, llm_called, llm_text, pcB, errB>>

vars == <<varsA, varsB>>

\* the variant that is not running
OffA ==
    /\ responses = <<>> /\ questions_df = <<>> /\ programmes_df = <<>> /\ top_n = 0
    /\ riasec_scores = <<>> /\ top_riasec = <<>> /\ top_values = <<>> /\ matches = <<>>
    /\ page = "off" /\ current_question = 0
    /\ pcA = "off" /\ errA = "none"

OffB ==
    /\ ans = <<>> /\ about = <<>> /\ df = <<>> /\ env_key = "" /\ secrets = "no key"
    /\ user_mode = <<>> /\ top = <<>> /\ top_modes = <<>> /\ shown = <<>>
    /\ displayed = FALSE /\ notices = <<>> /\ llm_called = FALSE /\ llm_text = "None"
    /\ pcB = "off" /\ errB = "none"

(***************************************************************************)
(* RIASEC variant: show_results_page, lines 388-398                        *)
(***************************************************************************)
\* Scoring inputs: many response records and every questions sheet, against
\* the reference programmes.  Matching inputs: ranked and tied profiles and
\* every programmes sheet, against the blocked questions sheet.
Input(r, q, p, n) ==
    /\ responses = r
    /\ questions_df = q
    /\ programmes_df = p
    /\ top_n = n

ScoringInputs ==
    \/ \E b \in UniformBases \cup VariedBases, q \in QuestionSheets :
          Input(Record(b, <<3, 5, 5, 1, 4>>, 1..29), q, ReferenceSheet, 8)
    \/ \E b \in UniformBases, a \in Incomplete, q \in QuestionSheets :
          Input(Record(b, <<3, 5, 5, 1, 4>>, a), q, ReferenceSheet, 8)

MatchingInputs ==
    \E b \in UniformBases \cup RankedBases, v \in ValueAnswers,
       p \in ProgrammeSheets \cup {FullMatchSheet}, n \in {2, 8} :
          Input(Record(b, v, 1..29), BlockedSheet, p, n)

InitA ==
    /\ (ScoringInputs \/ MatchingInputs)
    /\ riasec_scores = <<>>
    /\ top_riasec = <<>>
    /\ top_values = <<>>
    /\ matches = <<>>
    /\ page = "results"
    /\ current_question = 0
    /\ pcA = "results"
    /\ errA = "none"
    /\ OffB

ShowResultsPage ==
    /\ pcA = "results"
    /\ LET scored == calculate_riasec_scores(responses, questions_df) IN
       IF scored.err # "none"
       THEN /\ pcA' = "raised"
            /\ errA' = scored.err
            /\ UNCHANGED <<riasec_scores, top_riasec, top_values, matches>>
       ELSE /\ riasec_scores' = scored.scores
            /\ top_riasec' = get_top_riasec(scored.scores, 3)
            /\ top_values' = get_top_values(responses, 3)
            /\ \E m \in match_programmes(scored.scores, top_values', programmes_df, top_n) :
                  /\ matches' = m.results_df
                  /\ errA' = m.err
                  /\ pcA' = IF m.err = "none" THEN "shown" ELSE "raised"
    /\ UNCHANGED <<responses, questions_df, programmes_df, top_n, page, current_question>>
    /\ UNCHANGED varsB

(***************************************************************************)
(* Work-mode variant: the script run on "See my matches", lines 150-219    *)
(***************************************************************************)
InputB(a, t, d, e, s) ==
    /\ ans = a
    /\ about = t
    /\ df = d
    /\ env_key = e
    /\ secrets = s

\* Profile inputs: every answer record, text and credential setting, against
\* the reference table.  Ranking inputs: every table, against a few answer
\* records.
ProfileInputs ==
    \/ \E a \in CompleteAnswers \cup IncompleteAnswers, t \in AboutTexts,
          e \in EnvKeys, s \in SecretStores :
             InputB(a, t, ReferenceTable, e, s)
    \/ \E m \in Modes, t \in TallyTexts :
          InputB(Heaviest(m), t, ReferenceTable, "", "no key")

RankingInputs ==
    \E a \in {Pick(1), Two(1), Pick(6), Skipped(2)}, d \in ProgramsTables,
       s \in SecretStores :
          InputB(a, <<>>, d, IF s = "sk-secret" THEN "sk-env" ELSE "", s)

InitB ==
    /\ (ProfileInputs \/ RankingInputs)
    /\ user_mode = <<>>
    /\ top = <<>>
    /\ top_modes = <<>>
    /\ shown = <<>>
    /\ displayed = FALSE
    /\ notices = <<"Answer all MCQs to see results">>      \* line 221
    /\ llm_called = FALSE
    /\ llm_text = "None"
    /\ pcB = "form"
    /\ errB = "none"
    /\ OffA

\* `go` is true: lines 150-212, up to the call of llm_explain.  With a
\* question left empty the branch at line 153 assigns no user_mode, and the
\* scoring below it reads the unbound name: at line 193 on the first row, or
\* at line 199 when the table is empty.
Submit ==
    /\ pcB = "form"
    /\ IF ~Complete(ans)
       THEN /\ notices' = <<"Make a selection for each question">>
            /\ pcB' = "raised"
            /\ errB' = "NameError"
            /\ UNCHANGED <<user_mode, top, top_modes, shown, displayed>>
       ELSE /\ user_mode' = UserMode(ans, about)
            /\ top' = Top(user_mode', df)
            /\ top_modes' = TopModes(user_mode')
            /\ shown' = Suggestions(top')
            /\ displayed' = TRUE
            /\ notices' = <<>>
            /\ pcB' = "explain"
            /\ errB' = "none"
    /\ UNCHANGED <<ans, about, df, env_key, secrets, llm_called, llm_text>>
    /\ UNCHANGED varsA

\* What the OpenAI call inside the try block can do.
LlmOutcomes == {"text", "blank", "ImportError", "APIError", "malformed"}

\* llm_explain, lines 111-136: the set of its results [raised, text, caption].
\* Line 112 is outside the try block: with no environment key, st.secrets is
\* read, and reading it without any secrets.toml raises.
llm_explain(env, store) ==
    LET api_key == IF env # "" THEN env
                   ELSE IF store = "no key" THEN "" ELSE store
    IN IF env = "" /\ store = "no secrets file"
       THEN {[raised |-> "StreamlitSecretNotFoundError", text |-> "None", caption |-> <<>>]}
       ELSE IF api_key = ""
       THEN {[raised |-> "none", text |-> "None", caption |-> <<>>]}
       ELSE {[raised  |-> "none",
              text    |-> CASE o = "text" -> "text" [] o = "blank" -> "" [] OTHER -> "None",
              caption |-> IF o \in {"text", "blank"} THEN <<>>
                          ELSE <<"(AI explanation unavailable)">>] : o \in LlmOutcomes}

\* Variant of LlmExplain in which a returned text reorders the suggestions.
LlmExplainReorders ==
    /\ pcB = "explain"
    /\ llm_called' = TRUE
    /\ \E res \in llm_explain(env_key, secrets) :
          /\ llm_text' = res.text
          /\ notices' = notices \o res.caption
          /\ errB' = res.raised
          /\ pcB' = IF res.raised = "none" THEN "done" ELSE "raised"
          /\ top' = IF res.text = "text" THEN [i \in 1..Len(top) |-> top[Len(top) + 1 - i]]
                    ELSE top
          /\ shown' = Suggestions(top')
    /\ UNCHANGED <<ans, about, df, env_key, secrets, user_mode, top_modes, displayed>>
    /\ UNCHANGED varsA

\* lines 213-219
LlmExplain ==
    /\ pcB = "explain"
    /\ llm_called' = TRUE
    /\ \E res \in llm_explain(env_key, secrets) :
          /\ llm_text' = res.text
          /\ notices' = notices \o res.caption
          /\ errB' = res.raised
          /\ pcB' = IF res.raised = "none" THEN "done" ELSE "raised"
    /\ UNCHANGED <<ans, about, df, env_key, secrets, user_mode, top, top_modes,
                   shown, displayed>>
    /\ UNCHANGED varsA

\* "Start over", lines 218-219: st.rerun() runs the script afresh with `go`
\* false
StartOver ==
    /\ pcB = "done"
    /\ user_mode' = <<>>
    /\ top' = <<>>
    /\ top_modes' = <<>>
    /\ shown' = <<>>
    /\ displayed' = FALSE
    /\ notices' = <<"Answer all MCQs to see results">>
    /\ llm_called' = FALSE
    /\ llm_text' = "None"
    /\ pcB' = "form"
    /\ errB' = "none"
    /\ UNCHANGED <<ans, about, df, env_key, secrets>>
    /\ UNCHANGED varsA

(***************************************************************************)
(* RIASEC variant: the page flow, src/app.py main and the three pages      *)
(***************************************************************************)
\* the first MaxQuestions rows of the blocked sheet
ShortSheet == SubSeq(BlockedSheet, 1, MaxQuestions)

\* the radio values drawn: every other value on the short sheet, neutral on
\* the full one
FlowAnswers == IF Len(questions_df) > MaxQuestions THEN {3} ELSE {1, 3, 5}

\* st.session_state.responses[q_id] = response
Put(record, q_id, response) ==
    IF Has(record, q_id)
    THEN [i \in 1..Len(record) |->
             IF record[i].q_id = q_id THEN [q_id |-> q_id, response |-> response]
             ELSE record[i]]
    ELSE Append(record, [q_id |-> q_id, response |-> response])

\* init_session_state on a fresh session, lines 110-119
InitF ==
    /\ page = "welcome"
    /\ responses = <<>>
    /\ current_question = 0
    /\ questions_df \in {BlockedSheet, ShortSheet}
    /\ programmes_df = ReferenceSheet
    /\ top_n = 8
    /\ riasec_scores = <<>>
    /\ top_riasec = <<>>
    /\ top_values = <<>>
    /\ matches = <<>>
    /\ pcA = "idle"
    /\ errA = "none"
    /\ OffB

\* a button is pressed on a page the last run has finished rendering; the
\* locals of show_results_page do not outlive their run
Rerun(to) ==
    /\ pcA # "results"
    /\ pcA' = IF to = "results" THEN "results" ELSE "idle"
    /\ page' = to
    /\ riasec_scores' = <<>>
    /\ top_riasec' = <<>>
    /\ top_values' = <<>>
    /\ matches' = <<>>
    /\ errA' = "none"
    /\ UNCHANGED <<questions_df, programmes_df, top_n>>
    /\ UNCHANGED varsB

\* "Start Questionnaire", lines 293-295
StartQuestionnaire ==
    /\ page = "welcome"
    /\ Rerun("questionnaire")
    /\ UNCHANGED <<responses, current_question>>

\* Variant of NextQuestion that moves on without recording the answer.
NextQuestionUnrecorded ==
    /\ page = "questionnaire"
    /\ current_question < Len(questions_df) - 1
    /\ Rerun("questionnaire")
    /\ current_question' = current_question + 1
    /\ UNCHANGED responses

\* "Next", lines 374-379: enabled once a radio value is chosen
NextQuestion ==
    /\ page = "questionnaire"
    /\ current_question < Len(questions_df) - 1
    /\ Rerun("questionnaire")
    /\ \E response \in FlowAnswers :
          responses' = Put(responses, questions_df[current_question + 1].Question_ID, response)
    /\ current_question' = current_question + 1

\* "Previous", lines 358-362
Previous ==
    /\ page = "questionnaire"
    /\ current_question > 0
    /\ Rerun("questionnaire")
    /\ current_question' = current_question - 1
    /\ UNCHANGED responses

\* "Back to Home", lines 364-371
BackToHome ==
    /\ page = "questionnaire"
    /\ Rerun("welcome")
    /\ responses' = <<>>
    /\ current_question' = 0

\* "See Results", lines 380-385: shown on the last question
SeeResults ==
    /\ page = "questionnaire"
    /\ ~(current_question < Len(questions_df) - 1)
    /\ Rerun("results")
    /\ \E response \in FlowAnswers :
          responses' = Put(responses, questions_df[current_question + 1].Question_ID, response)
    /\ UNCHANGED current_question

\* the sidebar's "Home", lines 550-552: on every page
SidebarHome ==
    /\ page \in {"welcome", "questionnaire", "results"}
    /\ Rerun("welcome")
    /\ UNCHANGED <<responses, current_question>>

\* "Retake Quiz", lines 483-488: drawn once the results are
RetakeQuiz ==
    /\ page = "results"
    /\ pcA = "shown"
    /\ Rerun("welcome")
    /\ responses' = <<>>
    /\ current_question' = 0

(***************************************************************************)
(* Specifications                                                          *)
(***************************************************************************)
NextA == ShowResultsPage

NextB == Submit \/ LlmExplain \/ StartOver

\* the RIASEC variant's scoring and matching alone, on the drawn arguments
SpecA == InitA /\ [][NextA]_vars

\* the work-mode variant alone
SpecB == InitB /\ [][NextB]_vars

\* either variant
Init == InitA \/ InitB

Next == NextA \/ NextB

Spec == Init /\ [][Next]_vars

\* the RIASEC variant's pages, walked from a fresh session
NextF ==
    \/ StartQuestionnaire
    \/ NextQuestion
    \/ Previous
    \/ BackToHome
    \/ SeeResults
    \/ SidebarHome
    \/ RetakeQuiz
    \/ ShowResultsPage

SpecF == InitF /\ [][NextF]_vars

(***************************************************************************)
(* Claims                                                                  *)
(***************************************************************************)
\* the RIASEC pass has assigned riasec_scores
Scored == pcA \in {"shown", "raised"} /\ riasec_scores # <<>>

\* the response record answers Q1..Q24, each with v
AllAnswered(v) ==
    \A n \in 1..24 : Has(responses, QId(n)) /\ Get(responses, QId(n)) = v

\* the questions sheet tags four of Q1..Q24 with each code
FourPerCode ==
    \A c \in Codes :
        Cardinality({n \in 1..24 :
            \E i \in 1..Len(questions_df) :
                questions_df[i].Question_ID = QId(n) /\ questions_df[i].RIASEC_Type = c}) = 4

\* C1: with all of Q1..Q24 answered v (four questions per code), every
\* dimension score is (v - 1) * 25: 0 for v = 1, 50 for v = 3, 100 for v = 5.
\* Scores are in quarter-percent units.
C1_UniformScores ==
    \A v \in Likert :
        (pcA \in {"shown", "raised"} /\ AllAnswered(v) /\ FourPerCode)
            => /\ riasec_scores # <<>>
               /\ \A c \in Codes : riasec_scores[c] = 4 * ((v - 1) * 25)

C1_Witness ==
    /\ Scored /\ AllAnswered(3) /\ FourPerCode
    /\ \A c \in Codes : riasec_scores[c] = 4 * 50

\* the rows of matches whose primary tag is the 1st-ranked dimension and
\* secondary tag the 2nd-ranked, with no tertiary tag and no value-tag match
PerfectTopTwo(row) ==
    /\ row.Primary_RIASEC = top_riasec[1]
    /\ row.Secondary_RIASEC = top_riasec[2]
    /\ row.Tertiary_RIASEC = "None"
    /\ \/ row.Value_Tags.na
       \/ \A i \in 1..Len(top_values) : top_values[i] \notin Range(row.Value_Tags.items)

\* C2 as stated: such a programme scores exactly 10 points (20 half points).
C2_TenPoints ==
    pcA = "shown" =>
        \A i \in 1..Len(matches) : PerfectTopTwo(matches[i]) => matches[i].Match_Score = 2 * 10

\* C2 as amended: such a programme scores exactly 9 points: 5 for the
\* primary tag, 2 for the secondary tag, 2 bonus (18 half points).
C2_NinePoints ==
    pcA = "shown" =>
        \A i \in 1..Len(matches) : PerfectTopTwo(matches[i]) => matches[i].Match_Score = 2 * 9

C2_Witness ==
    /\ pcA = "shown"
    /\ \E i \in 1..Len(matches) : PerfectTopTwo(matches[i]) /\ matches[i].Match_Score = 18

\* C3: in both rankings, of two programmes with equal scores the one earlier
\* in the input table comes first.
C3_StableRanking ==
    /\ pcA = "shown" =>
          \A i, j \in 1..Len(matches) :
              (i < j /\ matches[i].Match_Score = matches[j].Match_Score)
                  => matches[i].Programme_ID < matches[j].Programme_ID
    /\ displayed =>
          \A i, j \in 1..Len(top) :
              (i < j /\ top[i].mfit2 = top[j].mfit2) => top[i].r.id < top[j].r.id

\* the score Scheme A gives programmes_df[i] / Scheme B gives df[i]
ScoreA(i) == ScoreRow(top_riasec, top_values, programmes_df[i]).Match_Score

ScoreB(i) == cosine(user_mode, row_mode_vec(df[i]))

\* C4: for a profile and a non-empty table the ranking has min(top_n, rows)
\* entries (six in Scheme B), holds no programme twice, and no programme
\* left out scores strictly higher than one that is in.
C4_RankingShape ==
    /\ (Scored /\ Len(programmes_df) > 0) =>
          /\ pcA = "shown"
          /\ Len(matches) = Min(top_n, Len(programmes_df))
          /\ \A i, j \in 1..Len(matches) :
                i # j => matches[i].Programme_ID # matches[j].Programme_ID
          /\ \A i \in 1..Len(matches) :
                /\ matches[i].Programme_ID \in 1..Len(programmes_df)
                /\ matches[i].Match_Score = ScoreA(matches[i].Programme_ID)
          /\ \A p \in 1..Len(programmes_df) :
                (\A i \in 1..Len(matches) : matches[i].Programme_ID # p)
                    => \A i \in 1..Len(matches) : ScoreA(p) <= matches[i].Match_Score
    /\ (pcB \in {"explain", "done", "raised"} /\ Complete(ans) /\ Len(df) > 0) =>
          /\ displayed
          /\ Len(top) = Min(6, Len(df))
          /\ \A i, j \in 1..Len(top) : i # j => top[i].r.id # top[j].r.id
          /\ \A i \in 1..Len(top) :
                /\ top[i].r.id \in 1..Len(df)
                /\ top[i].mfit2 = ScoreB(top[i].r.id)
          /\ \A p \in 1..Len(df) :
                (\A i \in 1..Len(top) : top[i].r.id # p)
                    => \A i \in 1..Len(top) : ~FGt(ScoreB(p), top[i].mfit2)

C4_Witness ==
    /\ displayed
    /\ Len(df) > 6
    /\ Len(top) = 6
    /\ \E p \in 1..Len(df) :
          /\ \A i \in 1..Len(top) : top[i].r.id # p
          /\ FGt(top[1].mfit2, ScoreB(p))

\* C5: with a table of zero rows the pass ends without an error and with an
\* empty ranking.
C5_EmptyTable ==
    /\ (Scored /\ Len(programmes_df) = 0)
          => (pcA = "shown" /\ errA = "none" /\ matches = <<>>)
    /\ (pcB \in {"explain", "done", "raised"} /\ Complete(ans) /\ Len(df) = 0)
          => (displayed /\ top = <<>>)

\* position of a code in the enumeration R, I, A, S, E, C
Place(c) == CHOOSE i \in 1..Len(RIASEC) : RIASEC[i] = c

\* a ranks before b: higher score, or equal score and earlier in R,I,A,S,E,C
Before(a, b) ==
    \/ riasec_scores[a] > riasec_scores[b]
    \/ riasec_scores[a] = riasec_scores[b] /\ Place(a) < Place(b)

\* C6: top_riasec holds three distinct codes, each ranking before the next
\* and the third before every code left out; equal scores all round give
\* R, I, A.
C6_TopThree ==
    Scored =>
        /\ Len(top_riasec) = 3
        /\ \A i, j \in 1..3 : i < j => Before(top_riasec[i], top_riasec[j])
        /\ \A c \in Codes \ Range(top_riasec) : Before(top_riasec[3], c)
        /\ Cardinality(Range(top_riasec)) = 3
        /\ (\A c, d \in Codes : riasec_scores[c] = riasec_scores[d])
              => top_riasec = <<"R", "I", "A">>

C6_Witness ==
    /\ Scored
    /\ riasec_scores["A"] = riasec_scores["R"]
    /\ riasec_scores["I"] > riasec_scores["R"]
    /\ riasec_scores["S"] = riasec_scores["R"]
    /\ riasec_scores["E"] < riasec_scores["R"]
    /\ top_riasec = <<"I", "R", "A">>

\* C7: a response record lacking one of Q1..Q24 makes the pass fail; no
\* profile is returned for it.
C7_RejectsIncomplete ==
    (pcA \in {"shown", "raised"} /\ \E n \in 1..24 : ~Has(responses, QId(n)))
        => (pcA = "raised" /\ riasec_scores = <<>>)

\* an answered interest question whose RIASEC_Type is outside R,I,A,S,E,C
UnknownTypeAnswered ==
    \E i \in 1..Len(questions_df) :
        /\ questions_df[i].RIASEC_Type \notin Codes
        /\ questions_df[i].Question_ID.num <= 24
        /\ Has(responses, questions_df[i].Question_ID)

\* a tag of the cell that is not empty and names no work mode
UnknownTag(row) ==
    LET tags == Split(CellStr(row.tags_work_modes))
    IN \E i \in 1..Len(tags) :
          Strip(tags[i]) # <<>> /\ TagMode(Lower(Strip(tags[i]))) = ""

\* C8: a dimension key outside the fixed set aborts the pass, in Strategy A
\* (a question's RIASEC_Type) and in Strategy B (a programme tag).
C8_UnknownDimensionAborts ==
    /\ (pcA \in {"shown", "raised"} /\ UnknownTypeAnswered) => pcA = "raised"
    /\ (pcB \in {"explain", "done", "raised"} /\ Complete(ans)
          /\ \E i \in 1..Len(df) : UnknownTag(df[i]))
          => (pcB = "raised" /\ ~displayed)

\* C9: llm_explain is entered only with the ranking on screen, and whatever
\* the credentials and the collaborator do, the ranking on screen is the one
\* the answers, the text and the table determine.
C9_RankingIndependentOfExplanation ==
    /\ llm_called => displayed
    /\ displayed =>
          \A profile \in {UserMode(ans, about)} :
              \A ranking \in {Top(profile, df)} :
                  top = ranking /\ shown = Suggestions(ranking)

C9_Witness ==
    /\ llm_called
    /\ pcB = "done"
    /\ llm_text = "text"
    /\ Len(shown) >= 2
    /\ shown[1].why.pct > shown[2].why.pct

\* C10: once llm_explain is entered the pass reaches its end: no exception
\* leaves llm_explain, and a failure leaves "no text".
C10_ExplanationFailuresAbsorbed ==
    llm_called =>
        /\ pcB = "done"
        /\ errB = "none"
        /\ displayed
        /\ (notices # <<>> => llm_text = "None")

\* no tag of the row's cell names a work mode
UnknownTagsOnly(row) ==
    LET tags == Split(CellStr(row.tags_work_modes))
    IN \A i \in 1..Len(tags) : TagMode(Lower(Strip(tags[i]))) = ""

\* v is zero on all seven work-mode keys
ZeroVec(v) == \A m \in Modes : v[m].n = 0

\* every selection is "None of these" and the text has no keyword
NothingChosen ==
    /\ \A i \in 1..Len(QUESTIONS) : \A j \in 1..Len(ans[i]) : ans[i][j] \in IGNORES
    /\ \A m \in Modes : KeywordHits(Lower(about), m) = 0

\* C11: cosine is exactly 0 when either vector is zero on all seven keys: a
\* user who chose nothing and wrote no keyword has the zero profile, and
\* every pairing with a zero user profile or with a programme that has no
\* recognized tag has mode_fit 0 and shows 0%.
C11_ZeroVectorZeroFit ==
    displayed =>
        /\ NothingChosen => ZeroVec(user_mode)
        /\ \A i \in 1..Len(top) :
              \A pmode \in {row_mode_vec(top[i].r)} :
                  /\ UnknownTagsOnly(top[i].r) => ZeroVec(pmode)
                  /\ (ZeroVec(user_mode) \/ ZeroVec(pmode))
                        => (top[i].mfit2 = Zero /\ shown[i].why.pct = 0)

C11_Witness ==
    /\ displayed
    /\ ~ZeroVec(user_mode)
    /\ \E i, j \in 1..Len(top) :
          /\ UnknownTagsOnly(top[i].r)
          /\ top[i].mfit2 = Zero
          /\ shown[i].why.pct = 0
          /\ FGt(top[j].mfit2, Zero)

\* the bonus line is among the row's Match_Details
BonusAdded(row) ==
    \E k \in 1..Len(row.Match_Details) : row.Match_Details[k] = <<"Strong alignment">>

\* the user's top-2 dimensions are, as a set, the row's primary and secondary
TopTwoAreCore(row) ==
    {top_riasec[1], top_riasec[2]} = {row.Primary_RIASEC, row.Secondary_RIASEC}

\* half points the row earned on the 1st- and 2nd-ranked dimensions
RankOneTwoPoints(row) ==
    FirstRule(top_riasec, row.Primary_RIASEC, row.Secondary_RIASEC).score
    + SecondRule(top_riasec, row.Primary_RIASEC, row.Secondary_RIASEC,
                 row.Tertiary_RIASEC).score

\* C12: the +2 bonus is in a programme's score exactly when the user's top-2
\* dimensions are, as a set, its primary and secondary tags, and never for a
\* programme that earned nothing on the 1st- and 2nd-ranked dimensions.
C12_BonusIffTopTwo ==
    pcA = "shown" =>
        \A i \in 1..Len(matches) :
            /\ BonusAdded(matches[i]) <=> TopTwoAreCore(matches[i])
            /\ matches[i].Match_Score =
                  RankOneTwoPoints(matches[i])
                  + ThirdRule(top_riasec, matches[i].Primary_RIASEC).score
                  + ValueRule(top_values, matches[i].Value_Tags).score
                  + (IF TopTwoAreCore(matches[i]) THEN 2 * 2 ELSE 0)
            /\ BonusAdded(matches[i]) => RankOneTwoPoints(matches[i]) > 0

C12_Witness ==
    /\ pcA = "shown"
    /\ \E i, j \in 1..Len(matches) :
          /\ matches[i].Primary_RIASEC = top_riasec[2]
          /\ matches[i].Secondary_RIASEC = top_riasec[1]
          /\ BonusAdded(matches[i])
          /\ matches[j].Primary_RIASEC = top_riasec[1]
          /\ matches[j].Secondary_RIASEC = top_riasec[1]
          /\ ~BonusAdded(matches[j])

\* C13: every Match_Score is at least 0 and at most 15.5 (31 half points),
\* the top values being at most three and pairwise distinct.
C13_ScoreRange ==
    pcA = "shown" =>
        /\ Len(top_values) <= 3
        /\ \A i, j \in 1..Len(top_values) : i # j => top_values[i] # top_values[j]
        /\ \A i \in 1..Len(matches) :
              /\ matches[i].Match_Score >= 0
              /\ matches[i].Match_Score <= 31

C13_Witness ==
    /\ pcA = "shown"
    /\ Len(top_values) = 3
    /\ \E i, j \in 1..Len(matches) :
          /\ matches[i].Match_Score = 27      \* 5 + 2 + 2 + 3 * 1.5
          /\ matches[j].Match_Score = 19      \* 3 + 3 + 2 + 1.5, a tag listed twice

\* C14: a submission with an empty selection stops at the notice: the pass
\* ends without an error, nothing is scored or shown, and user_mode is read
\* only when a complete record has assigned it.
C14_IncompleteStops ==
    (pcB \in {"explain", "done", "raised"} /\ ~Complete(ans)) =>
        /\ notices = <<"Make a selection for each question">>
        /\ errB = "none"
        /\ ~displayed
        /\ top = <<>>

\* C15: the profile has exactly the seven work-mode keys, and each component
\* is the mode's total (option weights plus text share) over 30, within 0..1.
C15_ProfileRange ==
    user_mode # <<>> =>
        /\ \A i \in 1..Len(QUESTIONS) : Len(ans[i]) <= 2
        /\ DOMAIN user_mode = Modes
        /\ \A text_vec \in {extract_modes_from_text(about)} :
              \A m \in Modes :
                  /\ user_mode[m].d > 0
                  /\ 0 <= user_mode[m].n
                  /\ user_mode[m].n <= user_mode[m].d
                  /\ FMul(user_mode[m], Frac(24 + 6, 1))
                        = FAdd(Frac(McqWeight(ans, m), 1), text_vec[m])

\* the analyst component at its largest: 17 from the options, 6 from the text
C15_Witness ==
    /\ displayed
    /\ ans = Heaviest("analyst")
    /\ McqWeight(ans, "analyst") = 17
    /\ user_mode["analyst"] = Frac(23, 30)
    /\ user_mode["creative"] = Zero

\* the text share of mode m in the profile: 30 * user_mode[m] less the
\* option weights
TextShare(m) ==
    FAdd(FMul(user_mode[m], Frac(24 + 6, 1)), [n |-> 0 - McqWeight(ans, m), d |-> 1])

\* the number of keyword hits in the lower-cased text, over all modes
TotalHits ==
    SumSeq([i \in 1..Len(WORK_MODES) |-> KeywordHits(Lower(about), WORK_MODES[i])])

Answered(n) == Has(responses, questions_df[n].Question_ID)

\* C17: on every path through the pages current_question stays within
\* 0..total_questions-1 and every question before it is answered; on the
\* results page, and whenever scoring has run, every question is answered.
C17_FlowKeepsRecordComplete ==
    /\ current_question \in 0..(Len(questions_df) - 1)
    /\ \A n \in 1..current_question : Answered(n)
    /\ (page = "results" \/ pcA \in {"results", "shown", "raised"})
          => \A n \in 1..Len(questions_df) : Answered(n)

\* the full questionnaire, answered neutral throughout, on the results page
\* with its scores computed
C17_Witness ==
    /\ page = "results"
    /\ pcA = "shown"
    /\ Len(questions_df) = 29
    /\ Len(responses) = 29
    /\ riasec_scores # <<>>
    /\ \A c \in Codes : riasec_scores[c] = 4 * 50

====
